---- MODULE Spec2Model ----
(***************************************************************************)
(* Model of artiq/frontend/artiq_ddb_template.py: the device database      *)
(* template builder.  process() validates the node roles, writes the       *)
(* header, then walks the peripheral list of the master node and of every  *)
(* satellite, handing each declaration to PeripheralManager.process with   *)
(* the current rtio_offset and advancing rtio_offset by the count that the *)
(* expansion returns.                                                      *)
(*                                                                         *)
(* A device_db entry is a record                                           *)
(*   name    the key written into device_db                                *)
(*   class   the "class" of the entry ("" for the core_log controller)     *)
(*   key     the argument that carries a number: "channel",                *)
(*           "channel_base" or "none"                                      *)
(*   channel the integer handed to that argument (NoChannel when none)     *)
(*   refs    the names of other entries found in the arguments             *)
(*   seed    the sync_delay_seed argument ("" when absent)                 *)
(* The description dictionaries are read-only.  The scalar fields of the   *)
(* master and the length of the satellites list (process() tests it for    *)
(* emptiness before anything else) are fixed in Init; the elements of the  *)
(* lists, which the code reads once and in order, are drawn when the for   *)
(* loops reach them: satellites holds the (destination, description) pairs *)
(* taken so far, calls the peripheral declarations taken so far.           *)
(***************************************************************************)
EXTENDS Integers, Sequences, FiniteSets, TLC

VARIABLES master, n_satellites, satellites, pc, raised, output, counts, rtio_offset, sat, calls

vars == <<master, n_satellites, satellites, pc, raised, output, counts, rtio_offset, sat, calls>>

(***************************************************************************)
(* Bounds of the model.                                                    *)
(***************************************************************************)
\* peripheral declarations expanded in one run, all nodes together
MaxDecls == 2
\* satellites on the command line
MaxSatellites == 2
\* largest destination number of a satellite
MaxDestination == 2

NoChannel == -1
NoReturn == -1

(***************************************************************************)
(* Inputs.                                                                 *)
(***************************************************************************)
Bases == {"standalone", "master", "satellite"}

HwRevs == {"v1.0", "v1.1", "v2.0"}

Targets == {"kasli", "sayma"}

Directions == {"input", "output"}

PlainTypes == {"mirny", "novogorny", "sampler", "suservo", "zotino",
               "grabber", "fastino", "phaser"}

\* a type tag for which PeripheralManager has no process_ method
UnknownTypes == {"stabilizer"}

\* a dds value that process_urukul does not know
UnknownDds == {"ad9914"}

Decl(ty, lo, hi, ec, sync, ports, dds) ==
    [type |-> ty, bank_direction_low |-> lo, bank_direction_high |-> hi,
     edge_counter |-> ec, synchronization |-> sync, ports |-> ports, dds |-> dds]

DioDecls ==
    {Decl("dio", lo, hi, ec, FALSE, <<0>>, "") :
        lo \in Directions, hi \in Directions, ec \in BOOLEAN}

UrukulDecls ==
    {Decl("urukul", "", "", FALSE, sync, ports, dds) :
        sync \in BOOLEAN, ports \in {<<0>>, <<0, 1>>},
        dds \in {"ad9910", "ad9912"} \cup UnknownDds}

OtherDecls ==
    {Decl(ty, "", "", FALSE, FALSE, <<0>>, "") : ty \in PlainTypes \cup UnknownTypes}

Declarations == DioDecls \cup UrukulDecls \cup OtherDecls

SatelliteArgs ==
    [destination : 0..MaxDestination, base : {"satellite", "master"}]

(***************************************************************************)
(* Entries and names.                                                      *)
(***************************************************************************)
Entry(name, class, key, channel, refs, seed) ==
    [name |-> name, class |-> class, key |-> key, channel |-> channel,
     refs |-> refs, seed |-> seed]

Plain(name, class) == Entry(name, class, "none", NoChannel, {}, "")

Chan(name, class, channel) == Entry(name, class, "channel", channel, {}, "")

Prefixes == {"ttl", "ttl_counter", "urukul", "mirny", "novogorny", "sampler",
             "suservo", "zotino", "grabber", "fastino", "phaser", "led"}

\* PeripheralManager.get_name: the name it returns ...
get_name(cnt, ty) == ty \o ToString(cnt[ty])

\* ... and the counter it leaves behind
get_name_counts(cnt, ty) == [cnt EXCEPT ![ty] = @ + 1]

\* the counters after k calls of get_name(ty)
after(cnt, ty, k) == [cnt EXCEPT ![ty] = @ + k]

Result(entries, n, cnt, exc) ==
    [entries |-> entries, n_channels |-> n, counts |-> cnt, raised |-> exc]

\* a header without the core_log controller and the two i2c switches
process_header_core ==
    << Plain("core", "Core"), Plain("core_cache", "CoreCache"),
       Plain("core_dma", "CoreDMA") >>

(***************************************************************************)
(* process_header: the six entries of the device_db literal.               *)
(***************************************************************************)
process_header ==
    << Plain("core", "Core"), Plain("core_log", ""), Plain("core_cache", "CoreCache"),
       Plain("core_dma", "CoreDMA"), Plain("i2c_switch0", "PCA9548"),
       Plain("i2c_switch1", "PCA9548") >>

(***************************************************************************)
(* The expansions.  Each takes the name counters, the rtio_offset and the  *)
(* declaration and yields the entries written, the count returned          *)
(* (next(channel) or the literal), the counters afterwards and the         *)
(* exception raised ("" when it returns).                                  *)
(***************************************************************************)
class_names(direction) == IF direction = "input" THEN "TTLInOut" ELSE "TTLOut"

\* classes[i//4] for i in range(8)
dio_class(peripheral, i) ==
    IF i \div 4 = 0 THEN class_names(peripheral.bank_direction_low)
    ELSE class_names(peripheral.bank_direction_high)

\* a dio that gives every channel an EdgeCounter, whatever its direction
dio_counted_all(peripheral) ==
    IF peripheral.edge_counter THEN <<0, 1, 2, 3, 4, 5, 6, 7>> ELSE << >>

\* the i of the second loop of process_dio for which an EdgeCounter is written
dio_counted(peripheral) ==
    IF peripheral.edge_counter
    THEN SelectSeq(<<0, 1, 2, 3, 4, 5, 6, 7>>,
                   LAMBDA i : dio_class(peripheral, i) = "TTLInOut")
    ELSE << >>

\* the entries of process_dio: both loops draw their channel from next(channel)
dio_entries(cnt, offset, peripheral) ==
    LET ttls == [k \in 1..8 |->
                    Chan(get_name(after(cnt, "ttl", k - 1), "ttl"),
                         dio_class(peripheral, k - 1),
                         offset + (k - 1))]
        counted == dio_counted(peripheral)
        counters == [k \in 1..Len(counted) |->
                    Chan(get_name(after(cnt, "ttl_counter", k - 1), "ttl_counter"),
                         "EdgeCounter",
                         offset + 8 + (k - 1))]
    IN  ttls \o counters

\* a process_dio that returns the width of the bank, not next(channel)
process_dio_bank(cnt, offset, peripheral) ==
    Result(dio_entries(cnt, offset, peripheral),
           8,
           after(after(cnt, "ttl", 8), "ttl_counter", Len(dio_counted(peripheral))),
           "")

process_dio(cnt, offset, peripheral) ==
    Result(dio_entries(cnt, offset, peripheral),
           8 + Len(dio_counted(peripheral)),
           after(after(cnt, "ttl", 8), "ttl_counter", Len(dio_counted(peripheral))),
           "")

\* an urukul that forgets the channel of its sync TTLClockGen
urukul_channels_nosync(peripheral) ==
    1 + 1 + (IF Len(peripheral.ports) > 1 THEN 4 ELSE 0)

\* the value of next(channel) when process_urukul returns
urukul_channels(peripheral) ==
    1 + (IF peripheral.synchronization THEN 1 ELSE 0) + 1
      + (IF Len(peripheral.ports) > 1 THEN 4 ELSE 0)

\* an urukul channel that names its sw_device whatever the number of ports
urukul_ch_sw(urukul_name, peripheral, i) ==
    Entry(urukul_name \o "_ch" \o ToString(i),
          IF peripheral.dds = "ad9910" THEN "AD9910" ELSE "AD9912",
          "none", NoChannel,
          {urukul_name \o "_cpld", "ttl_" \o urukul_name \o "_sw" \o ToString(i)},
          IF peripheral.dds = "ad9910" /\ peripheral.synchronization
          THEN "eeprom_" \o urukul_name \o ":" \o ToString(64 + 4 * i)
          ELSE "")

\* the _ch entry of channel i of an urukul
urukul_ch(urukul_name, peripheral, i) ==
    LET many == Len(peripheral.ports) > 1
        sw == IF many THEN {"ttl_" \o urukul_name \o "_sw" \o ToString(i)} ELSE {}
    IN  IF peripheral.dds = "ad9910"
        THEN Entry(urukul_name \o "_ch" \o ToString(i), "AD9910", "none", NoChannel,
                   {urukul_name \o "_cpld"} \cup sw,
                   IF peripheral.synchronization
                   THEN "eeprom_" \o urukul_name \o ":" \o ToString(64 + 4 * i)
                   ELSE "")
        ELSE Entry(urukul_name \o "_ch" \o ToString(i), "AD9912", "none", NoChannel,
                   {urukul_name \o "_cpld"} \cup sw, "")

\* the entries of process_urukul up to and including the _cpld
urukul_entries(urukul_name, offset, peripheral) ==
    LET synchronization == peripheral.synchronization
        s == IF synchronization THEN 1 ELSE 0
        many == Len(peripheral.ports) > 1
        first == << Plain("eeprom_" \o urukul_name, "KasliEEPROM"),
                    Chan("spi_" \o urukul_name, "SPIMaster", offset) >>
        sync == IF synchronization
                THEN << Chan("ttl_" \o urukul_name \o "_sync", "TTLClockGen", offset + 1) >>
                ELSE << >>
        io_update == << Chan("ttl_" \o urukul_name \o "_io_update", "TTLOut",
                             offset + 1 + s) >>
        sws == IF many
               THEN [k \in 1..4 |->
                        Chan("ttl_" \o urukul_name \o "_sw" \o ToString(k - 1), "TTLOut",
                             offset + 2 + s + (k - 1))]
               ELSE << >>
        cpld == << Entry(urukul_name \o "_cpld", "CPLD", "none", NoChannel,
                         {"spi_" \o urukul_name, "ttl_" \o urukul_name \o "_io_update"}
                           \cup (IF synchronization
                                 THEN {"ttl_" \o urukul_name \o "_sync"} ELSE {}),
                         "") >>
    IN  first \o sync \o io_update \o sws \o cpld

\* the four _ch entries
urukul_chs(urukul_name, peripheral) ==
    [k \in 1..4 |-> urukul_ch(urukul_name, peripheral, k - 1)]

\* a process_urukul that tests the dds before it takes a name or writes an entry
process_urukul_checked(cnt, offset, peripheral) ==
    IF peripheral.dds \in {"ad9910", "ad9912"}
    THEN Result(urukul_entries(get_name(cnt, "urukul"), offset, peripheral)
                  \o urukul_chs(get_name(cnt, "urukul"), peripheral),
                urukul_channels(peripheral), get_name_counts(cnt, "urukul"), "")
    ELSE Result(<< >>, NoReturn, cnt, "ValueError")

\* a process_urukul without the final else: an unknown dds writes no _ch entry
process_urukul_lenient(cnt, offset, peripheral) ==
    Result(urukul_entries(get_name(cnt, "urukul"), offset, peripheral)
             \o (IF peripheral.dds \in {"ad9910", "ad9912"}
                 THEN urukul_chs(get_name(cnt, "urukul"), peripheral) ELSE << >>),
           urukul_channels(peripheral), get_name_counts(cnt, "urukul"), "")

process_urukul(cnt, offset, peripheral) ==
    LET urukul_name == get_name(cnt, "urukul")
        before == urukul_entries(urukul_name, offset, peripheral)
        cnt1 == get_name_counts(cnt, "urukul")
    IN  IF peripheral.dds \in {"ad9910", "ad9912"}
        THEN Result(before \o urukul_chs(urukul_name, peripheral),
                    urukul_channels(peripheral), cnt1, "")
        ELSE Result(before, NoReturn, cnt1, "ValueError")

process_mirny(cnt, offset, peripheral) ==
    LET mirny_name == get_name(cnt, "mirny")
        spi == << Chan("spi_" \o mirny_name, "SPIMaster", offset) >>
        sws == [k \in 1..4 |->
                  Chan("ttl_" \o mirny_name \o "_sw" \o ToString(k - 1), "TTLOut",
                       offset + 1 + (k - 1))]
        chs == [k \in 1..4 |->
                  Entry(mirny_name \o "_ch" \o ToString(k - 1), "ADF5356",
                        "channel", k - 1,
                        {"ttl_" \o mirny_name \o "_sw" \o ToString(k - 1),
                         mirny_name \o "_cpld"},
                        "")]
        cpld == << Entry(mirny_name \o "_cpld", "Mirny", "none", NoChannel,
                         {"spi_" \o mirny_name}, "") >>
    IN  Result(spi \o sws \o chs \o cpld, 5, get_name_counts(cnt, "mirny"), "")

process_novogorny(cnt, offset, peripheral) ==
    LET name == get_name(cnt, "novogorny")
    IN  Result(<< Chan("spi_" \o name \o "_adc", "SPIMaster", offset),
                  Chan("ttl_" \o name \o "_cnv", "TTLOut", offset + 1),
                  Entry(name, "Novogorny", "none", NoChannel,
                        {"spi_" \o name \o "_adc", "ttl_" \o name \o "_cnv"}, "") >>,
               2, get_name_counts(cnt, "novogorny"), "")

sampler_entries(name, offset) ==
    << Chan("spi_" \o name \o "_adc", "SPIMaster", offset),
       Chan("spi_" \o name \o "_pgia", "SPIMaster", offset + 1),
       Chan("ttl_" \o name \o "_cnv", "TTLOut", offset + 2),
       Entry(name, "Sampler", "none", NoChannel,
             {"spi_" \o name \o "_adc", "spi_" \o name \o "_pgia",
              "ttl_" \o name \o "_cnv"}, "") >>

\* a process_sampler that returns the count of a novogorny
process_sampler_two(cnt, offset, peripheral) ==
    Result(sampler_entries(get_name(cnt, "sampler"), offset),
           2, get_name_counts(cnt, "sampler"), "")

process_sampler(cnt, offset, peripheral) ==
    Result(sampler_entries(get_name(cnt, "sampler"), offset),
           3, get_name_counts(cnt, "sampler"), "")

\* the three entries written for one of the two urukuls of a suservo
suservo_urukul(urukul_name, channel) ==
    << Chan("spi_" \o urukul_name, "SPIMaster", channel),
       Entry(urukul_name \o "_cpld", "CPLD", "none", NoChannel,
             {"spi_" \o urukul_name}, ""),
       Entry(urukul_name \o "_dds", "AD9910", "none", NoChannel,
             {urukul_name \o "_cpld"}, "") >>

suservo_entries(cnt, offset, peripheral) ==
    LET suservo_name == get_name(cnt, "suservo")
        sampler_name == get_name(cnt, "sampler")
        urukul_names == [k \in 1..2 |-> get_name(after(cnt, "urukul", k - 1), "urukul")]
        chs == [k \in 1..8 |->
                  Entry(suservo_name \o "_ch" \o ToString(k - 1), "Channel",
                        "channel", offset + (k - 1), {suservo_name}, "")]
        servo == << Entry(suservo_name, "SUServo", "channel", offset + 8,
                          {"spi_" \o sampler_name \o "_pgia"}
                            \cup {urukul_names[k] \o "_cpld" : k \in 1..2}
                            \cup {urukul_names[k] \o "_dds" : k \in 1..2},
                          "") >>
        pgia == << Chan("spi_" \o sampler_name \o "_pgia", "SPIMaster", offset + 9) >>
    IN  chs \o servo \o pgia
            \o suservo_urukul(urukul_names[1], offset + 10)
            \o suservo_urukul(urukul_names[2], offset + 11)

\* a process_suservo that names its urukuls without taking them from the counter
process_suservo_peek(cnt, offset, peripheral) ==
    Result(suservo_entries(cnt, offset, peripheral),
           12,
           get_name_counts(get_name_counts(cnt, "suservo"), "sampler"),
           "")

process_suservo(cnt, offset, peripheral) ==
    Result(suservo_entries(cnt, offset, peripheral),
           12,
           after(get_name_counts(get_name_counts(cnt, "suservo"), "sampler"),
                 "urukul", 2),
           "")

process_zotino(cnt, offset, peripheral) ==
    LET name == get_name(cnt, "zotino")
    IN  Result(<< Chan("spi_" \o name, "SPIMaster", offset),
                  Chan("ttl_" \o name \o "_ldac", "TTLOut", offset + 1),
                  Chan("ttl_" \o name \o "_clr", "TTLOut", offset + 2),
                  Entry(name, "Zotino", "none", NoChannel,
                        {"spi_" \o name, "ttl_" \o name \o "_ldac",
                         "ttl_" \o name \o "_clr"}, "") >>,
               3, get_name_counts(cnt, "zotino"), "")

process_grabber(cnt, offset, peripheral) ==
    Result(<< Entry(get_name(cnt, "grabber"), "Grabber", "channel_base", offset, {}, "") >>,
           2, get_name_counts(cnt, "grabber"), "")

process_fastino(cnt, offset, peripheral) ==
    Result(<< Chan(get_name(cnt, "fastino"), "Fastino", offset) >>,
           1, get_name_counts(cnt, "fastino"), "")

process_phaser(cnt, offset, peripheral) ==
    Result(<< Entry(get_name(cnt, "phaser"), "Phaser", "channel_base", offset, {}, "") >>,
           5, get_name_counts(cnt, "phaser"), "")

\* PeripheralManager.process: getattr(self, "process_" + type), then the call
pm_process(cnt, offset, peripheral) ==
    CASE peripheral.type = "dio"       -> process_dio(cnt, offset, peripheral)
      [] peripheral.type = "urukul"    -> process_urukul(cnt, offset, peripheral)
      [] peripheral.type = "mirny"     -> process_mirny(cnt, offset, peripheral)
      [] peripheral.type = "novogorny" -> process_novogorny(cnt, offset, peripheral)
      [] peripheral.type = "sampler"   -> process_sampler(cnt, offset, peripheral)
      [] peripheral.type = "suservo"   -> process_suservo(cnt, offset, peripheral)
      [] peripheral.type = "zotino"    -> process_zotino(cnt, offset, peripheral)
      [] peripheral.type = "grabber"   -> process_grabber(cnt, offset, peripheral)
      [] peripheral.type = "fastino"   -> process_fastino(cnt, offset, peripheral)
      [] peripheral.type = "phaser"    -> process_phaser(cnt, offset, peripheral)
      [] OTHER                         -> Result(<< >>, NoReturn, cnt, "AttributeError")

add_sfp_leds(cnt, offset) ==
    Result([k \in 1..2 |->
               Chan(get_name(after(cnt, "led", k - 1), "led"), "TTLOut", offset + (k - 1))],
           2, after(cnt, "led", 2), "")

(***************************************************************************)
(* process(output, master_description, satellites), step by step.          *)
(***************************************************************************)
\* a shift that lost the 6 of the 16
shl1(destination) == destination * 2

\* a shift by one byte
shl8(destination) == destination * 256

\* destination << 16
shl16(destination) == destination * 65536

\* a tuple that misses v1.1
legacy_hw_revs_first == {"v1.0"}

\* the hw_rev values for which the standalone node gets the SFP leds
legacy_hw_revs == {"v1.0", "v1.1"}

zero_counts == [ty \in Prefixes |-> 0]

Init ==
    /\ master \in [base : Bases, hw_rev : HwRevs, target : Targets]
    /\ n_satellites \in 0..MaxSatellites
    /\ satellites = << >>
    /\ pc = "process"
    /\ raised = ""
    /\ output = << >>
    /\ counts = zero_counts
    /\ rtio_offset = 0
    /\ sat = 0
    /\ calls = << >>

\* the two checks at the head of process()
Validate ==
    /\ pc = "process"
    /\ IF master.base \notin {"standalone", "master"}
       THEN pc' = "raised" /\ raised' = "ValueError"
       ELSE IF master.base = "standalone" /\ n_satellites > 0
       THEN pc' = "raised" /\ raised' = "ValueError"
       ELSE pc' = "header" /\ raised' = raised
    /\ UNCHANGED <<master, n_satellites, satellites, output, counts, rtio_offset, sat, calls>>

\* process_header, the PeripheralManager, the "# ... peripherals" line, rtio_offset = 0
Header ==
    /\ pc = "header"
    /\ IF master.target # "kasli"
       THEN /\ pc' = "raised"
            /\ raised' = "NotImplementedError"
            /\ UNCHANGED <<output, counts, rtio_offset>>
       ELSE /\ pc' = "master"
            /\ raised' = raised
            /\ output' = output \o process_header
            /\ counts' = zero_counts
            /\ rtio_offset' = 0
    /\ UNCHANGED <<master, n_satellites, satellites, sat, calls>>

\* one turn of a "for peripheral in ...["peripherals"]" loop on declaration peripheral
Expand(peripheral) ==
    LET r == pm_process(counts, rtio_offset, peripheral)
    IN  /\ output' = output \o r.entries
        /\ counts' = r.counts
        /\ calls' = Append(calls, [node |-> sat, peripheral |-> peripheral,
                                   rtio_offset |-> rtio_offset,
                                   n_channels |-> r.n_channels,
                                   first |-> Len(output) + 1,
                                   last |-> Len(output) + Len(r.entries)])
        /\ IF r.raised = ""
           THEN /\ rtio_offset' = rtio_offset + r.n_channels
                /\ UNCHANGED <<pc, raised>>
           ELSE /\ pc' = "raised"
                /\ raised' = r.raised
                /\ UNCHANGED rtio_offset

MasterPeripheral ==
    /\ pc = "master"
    /\ Len(calls) < MaxDecls
    /\ \E peripheral \in Declarations : Expand(peripheral)
    /\ UNCHANGED <<master, n_satellites, satellites, sat>>

\* the master's list is exhausted: the SFP leds, then on to the satellites
MasterLeds ==
    /\ pc = "master"
    /\ IF master.base = "standalone" /\ master.hw_rev \in legacy_hw_revs
       THEN LET r == add_sfp_leds(counts, rtio_offset)
            IN  /\ output' = output \o r.entries
                /\ counts' = r.counts
                /\ rtio_offset' = rtio_offset + r.n_channels
       ELSE UNCHANGED <<output, counts, rtio_offset>>
    /\ pc' = "satellites"
    /\ UNCHANGED <<master, n_satellites, satellites, raised, sat, calls>>

\* the head of one turn of "for destination, description in satellites"
SatelliteBegin ==
    /\ pc = "satellites"
    /\ sat < n_satellites
    /\ sat' = sat + 1
    /\ \E s \in SatelliteArgs : satellites' = Append(satellites, s)
    /\ IF satellites'[sat + 1].base # "satellite"
       THEN /\ pc' = "raised"
            /\ raised' = "ValueError"
            /\ UNCHANGED rtio_offset
       ELSE /\ pc' = "satellite"
            /\ raised' = raised
            /\ rtio_offset' = shl16(satellites'[sat + 1].destination)
    /\ UNCHANGED <<master, n_satellites, output, counts, calls>>

SatellitePeripheral ==
    /\ pc = "satellite"
    /\ Len(calls) < MaxDecls
    /\ \E peripheral \in Declarations : Expand(peripheral)
    /\ UNCHANGED <<master, n_satellites, satellites, sat>>

\* the satellite's list is exhausted
SatelliteEnd ==
    /\ pc = "satellite"
    /\ pc' = "satellites"
    /\ UNCHANGED <<master, n_satellites, satellites, raised, output, counts, rtio_offset, sat, calls>>

\* no satellite is left: process() returns
Return ==
    /\ pc = "satellites"
    /\ sat = n_satellites
    /\ pc' = "done"
    /\ UNCHANGED <<master, n_satellites, satellites, raised, output, counts, rtio_offset, sat, calls>>

Next ==
    \/ Validate
    \/ Header
    \/ MasterPeripheral
    \/ MasterLeds
    \/ SatelliteBegin
    \/ SatellitePeripheral
    \/ SatelliteEnd
    \/ Return

Spec == Init /\ [][Next]_vars

TypeOK ==
    /\ pc \in {"process", "header", "master", "satellites", "satellite", "done", "raised"}
    /\ raised \in {"", "ValueError", "AttributeError", "NotImplementedError"}
    /\ (pc = "raised") <=> (raised # "")
    /\ sat \in 0..n_satellites /\ Len(satellites) = sat
    /\ rtio_offset \in Nat
    /\ Len(calls) <= MaxDecls

(***************************************************************************)
(* Vocabulary of the properties.                                           *)
(***************************************************************************)
\* the call of pm.process returned (it did not raise)
Returned(c) == c.n_channels # NoReturn

\* the positions in output of the entries a call wrote
Span(c) == c.first..c.last

\* The argument of e is an RTIO address: a channel or channel_base computed
\* from rtio_offset.  The "channel" of an ADF5356 is the loop index mchn of
\* process_mirny, the number of the PLL on the card, and no address.
IsAddress(e) == e.key # "none" /\ e.class # "ADF5356"

\* the addresses found in the entries a call wrote
Addresses(c) == {output[i].channel : i \in {j \in Span(c) : IsAddress(output[j])}}

\* the declaration makes its expansion raise
Offending(peripheral) ==
    \/ peripheral.type \notin {"dio", "urukul", "mirny", "novogorny", "sampler",
                               "suservo", "zotino", "grabber", "fastino", "phaser"}
    \/ peripheral.type = "urukul" /\ peripheral.dds \notin {"ad9910", "ad9912"}

\* the for loop over the master's peripherals and the led test are behind
MasterDone == pc \in {"satellites", "satellite", "done"} \/ (pc = "raised" /\ sat > 0)

\* the positions in output of the entries named led<n>
LedPositions ==
    {i \in 1..Len(output) : output[i].name \in {"led" \o ToString(k) : k \in 0..3}}

\* the roles handed to process() are not a valid combination
InvalidRoles ==
    \/ master.base \notin {"standalone", "master"}
    \/ master.base = "standalone" /\ n_satellites > 0
    \/ \E k \in 1..Len(satellites) : satellites[k].base # "satellite"

(***************************************************************************)
(* C1.  Within one node's pass the intervals [rtio_offset,                 *)
(* rtio_offset + n_channels) of the peripherals are pairwise disjoint,     *)
(* each starts where the previous one ends, and no address written into    *)
(* an entry of one peripheral is written into an entry of another          *)
(* peripheral of the same node.                                            *)
(***************************************************************************)
C1_NonOverlap ==
    \A i \in 1..Len(calls), j \in 1..Len(calls) :
        (i < j /\ calls[i].node = calls[j].node) =>
            /\ Returned(calls[i])
            /\ calls[i].rtio_offset + calls[i].n_channels <= calls[j].rtio_offset
            /\ (j = i + 1 =>
                  calls[j].rtio_offset = calls[i].rtio_offset + calls[i].n_channels)
            /\ Addresses(calls[i]) \cap Addresses(calls[j]) = {}

C1_Witness ==
    /\ Len(calls) = 2
    /\ calls[1].node = calls[2].node
    /\ Returned(calls[2])
    /\ Cardinality(Addresses(calls[1])) > 1
    /\ Cardinality(Addresses(calls[2])) > 1

(***************************************************************************)
(* C2.  No two entries of the output of a run have the same name, header   *)
(* and all nodes together, the sub-devices whose counter is shared between *)
(* suservo, urukul and sampler included.                                   *)
(***************************************************************************)
C2_UniqueNames ==
    Cardinality({output[i].name : i \in 1..Len(output)}) = Len(output)

C2_Witness ==
    /\ pc = "done"
    /\ Len(calls) = 2
    /\ calls[1].peripheral.type = "suservo"
    /\ calls[2].peripheral.type = "urukul"
    /\ calls[1].node # calls[2].node

(***************************************************************************)
(* C3 as claimed.  For every peripheral type the number of distinct        *)
(* addresses in the channel / channel_base arguments of the entries of an  *)
(* expansion equals the count it returns.                                  *)
(***************************************************************************)
C3_CountEqualsAddresses ==
    \A i \in 1..Len(calls) :
        Returned(calls[i]) => Cardinality(Addresses(calls[i])) = calls[i].n_channels

(***************************************************************************)
(* C3 as amended.  For every type but grabber and phaser the addresses in  *)
(* the entries of an expansion are exactly rtio_offset ..                  *)
(* rtio_offset + n_channels - 1.  A grabber and a phaser write one entry   *)
(* whose channel_base is rtio_offset and return 2 and 5.                   *)
(***************************************************************************)
C3_CountContract ==
    \A i \in 1..Len(calls) :
        LET c == calls[i]
        IN  Returned(c) =>
              IF c.peripheral.type \in {"grabber", "phaser"}
              THEN /\ c.first = c.last
                   /\ output[c.first].key = "channel_base"
                   /\ output[c.first].channel = c.rtio_offset
                   /\ c.n_channels = IF c.peripheral.type = "grabber" THEN 2 ELSE 5
              ELSE /\ Addresses(c) = c.rtio_offset .. (c.rtio_offset + c.n_channels - 1)
                   /\ \A k \in Span(c) : output[k].key # "channel_base"

C3_Witness ==
    /\ Len(calls) = 2
    /\ calls[1].peripheral.type = "suservo"
    /\ calls[2].peripheral.type = "phaser"
    /\ Returned(calls[2])

(***************************************************************************)
(* C4 as claimed.  Every entry whose arguments name another entry names an *)
(* entry written earlier in the run.                                       *)
(***************************************************************************)
C4_RefsEarlier ==
    \A i \in 1..Len(output) :
        \A r \in output[i].refs : \E j \in 1..(i - 1) : output[j].name = r

(***************************************************************************)
(* C4 as amended.  Every entry whose arguments name another entry names an *)
(* entry written by the expansion of the same declaration: an earlier one  *)
(* for every type but mirny and suservo, whose _ch and servo entries name  *)
(* entries written after them.  Header and led entries name none.          *)
(***************************************************************************)
C4_RefsResolved ==
    /\ \A n \in 1..Len(calls) :
          LET c == calls[n]
          IN  \A i \in Span(c) : \A r \in output[i].refs :
                \E j \in Span(c) :
                    /\ output[j].name = r
                    /\ c.peripheral.type \notin {"mirny", "suservo"} => j < i
    /\ \A i \in 1..Len(output) :
          (\A n \in 1..Len(calls) : i \notin Span(calls[n])) => output[i].refs = {}

C4_Witness ==
    /\ Len(calls) = 2
    /\ calls[1].peripheral.type = "mirny"
    /\ calls[2].peripheral.type = "urukul"
    /\ Len(calls[2].peripheral.ports) = 1
    /\ Returned(calls[2])

C6_NodeBase ==
    /\ \A i \in 1..Len(calls) :
          (i = 1 \/ calls[i - 1].node # calls[i].node) =>
              calls[i].rtio_offset =
                  IF calls[i].node = 0 THEN 0
                  ELSE satellites[calls[i].node].destination * 65536
    /\ (pc = "satellite" /\ (calls = << >> \/ calls[Len(calls)].node # sat)) =>
          rtio_offset = satellites[sat].destination * 65536

C6_Witness ==
    /\ Len(calls) = 2
    /\ calls[1].node = 1
    /\ calls[1].n_channels > 1
    /\ calls[2].node = 2
    /\ satellites[2].destination = 2

(***************************************************************************)
(* Vocabulary of the claims on single expansions.                          *)
(***************************************************************************)
\* the number of input channels of a dio declaration: a bank is 4 channels
InputChannels(peripheral) ==
    (IF peripheral.bank_direction_low = "input" THEN 4 ELSE 0)
      + (IF peripheral.bank_direction_high = "input" THEN 4 ELSE 0)

\* call i is followed, in its node, by a call that starts at address
StartsNextAt(i, address) ==
    (i < Len(calls) /\ calls[i + 1].node = calls[i].node) =>
        calls[i + 1].rtio_offset = address

\* the declaration of end-to-end scenario 2
SyncSinglePort(peripheral) ==
    /\ peripheral.type = "urukul"
    /\ peripheral.synchronization
    /\ Len(peripheral.ports) = 1
    /\ peripheral.dds = "ad9910"

\* the names of the entries a call wrote, in order
NamesOf(c) == [k \in 1..(c.last - c.first + 1) |-> output[c.first + k - 1].name]

(***************************************************************************)
(* C7 as claimed.  Expanding a dio declaration always returns 8: the        *)
(* EdgeCounter entries take no address of their own and carry the address  *)
(* of a ttl channel of the bank.                                           *)
(***************************************************************************)
C7_DioAlwaysEight ==
    \A i \in 1..Len(calls) :
        LET c == calls[i]
        IN  (c.peripheral.type = "dio" /\ Returned(c)) =>
              /\ c.n_channels = 8
              /\ \A k \in Span(c) :
                    output[k].class = "EdgeCounter" =>
                        output[k].channel \in c.rtio_offset .. (c.rtio_offset + 7)

(***************************************************************************)
(* C7 as amended.  Expanding a dio declaration at base b writes ttl         *)
(* entries at b .. b + 7 and returns 8 when edge_counter is off; when it   *)
(* is on, each of the k input channels (k = 0, 4 or 8) gets an EdgeCounter *)
(* entry at an address of its own, b + 8 .. b + 8 + k - 1, the count       *)
(* returned is 8 + k and the next peripheral starts at b + 8 + k.          *)
(***************************************************************************)
C7_DioCount ==
    \A i \in 1..Len(calls) :
        LET c == calls[i]
            k == IF c.peripheral.edge_counter THEN InputChannels(c.peripheral) ELSE 0
        IN  (c.peripheral.type = "dio" /\ Returned(c)) =>
              /\ c.n_channels = 8 + k
              /\ c.last - c.first + 1 = 8 + k
              /\ \A m \in 0..7 :
                    /\ output[c.first + m].class \in {"TTLInOut", "TTLOut"}
                    /\ output[c.first + m].channel = c.rtio_offset + m
              /\ \A m \in 0..(k - 1) :
                    /\ output[c.first + 8 + m].class = "EdgeCounter"
                    /\ output[c.first + 8 + m].channel = c.rtio_offset + 8 + m
              /\ StartsNextAt(i, c.rtio_offset + 8 + k)

C7_Witness ==
    /\ Len(calls) = 2
    /\ calls[1].node = calls[2].node
    /\ calls[1].peripheral.type = "dio"
    /\ calls[1].peripheral.edge_counter
    /\ calls[1].peripheral.bank_direction_low = "input"
    /\ calls[1].peripheral.bank_direction_high = "output"
    /\ calls[2].rtio_offset = calls[1].rtio_offset + 12

(***************************************************************************)
(* C8 as claimed.  On a standalone node an urukul with synchronization, a  *)
(* single port and dds ad9910 returns 6 consumed addresses, and the next   *)
(* peripheral starts at base + 6.                                          *)
(***************************************************************************)
C8_UrukulSix ==
    \A i \in 1..Len(calls) :
        (master.base = "standalone" /\ SyncSinglePort(calls[i].peripheral)) =>
            /\ calls[i].n_channels = 6
            /\ StartsNextAt(i, calls[i].rtio_offset + 6)

(***************************************************************************)
(* C8 as amended.  On a standalone node an urukul with synchronization, a  *)
(* single port and dds ad9910 writes the eeprom, spi, sync, io_update and  *)
(* cpld entries and four channel entries, each with a sync_delay_seed into *)
(* the eeprom of the card; only spi, sync and io_update have a channel     *)
(* (base, base + 1, base + 2), the count returned is 3 and the next        *)
(* peripheral starts at base + 3.                                          *)
(***************************************************************************)
C8_UrukulSync ==
    \A i \in 1..Len(calls) :
        LET c == calls[i]
        IN  (master.base = "standalone" /\ SyncSinglePort(c.peripheral)) =>
              /\ c.n_channels = 3
              /\ StartsNextAt(i, c.rtio_offset + 3)
              /\ \E u \in 0..(2 * Len(calls)) :
                    LET name == "urukul" \o ToString(u)
                    IN  /\ NamesOf(c) = << "eeprom_" \o name, "spi_" \o name,
                                           "ttl_" \o name \o "_sync",
                                           "ttl_" \o name \o "_io_update",
                                           name \o "_cpld",
                                           name \o "_ch0", name \o "_ch1",
                                           name \o "_ch2", name \o "_ch3" >>
                        /\ output[c.first + 4].refs =
                              {"spi_" \o name, "ttl_" \o name \o "_sync",
                               "ttl_" \o name \o "_io_update"}
                        /\ \A m \in 0..3 :
                              output[c.first + 5 + m].seed =
                                  "eeprom_" \o name \o ":" \o ToString(64 + 4 * m)
              /\ output[c.first + 2].class = "TTLClockGen"
              /\ Addresses(c) = c.rtio_offset .. (c.rtio_offset + 2)
              /\ \A m \in 1..3 : output[c.first + m].channel = c.rtio_offset + m - 1

C8_Witness ==
    /\ master.base = "standalone"
    /\ Len(calls) = 2
    /\ SyncSinglePort(calls[1].peripheral)
    /\ calls[2].rtio_offset = calls[1].rtio_offset + 3
    /\ pc = "done"

(***************************************************************************)
(* C9 as claimed.  When the first node, standalone or master, has hw_rev   *)
(* v1.0 or v1.1, two led entries follow the peripherals of that node.      *)
(***************************************************************************)
C9_LedsOnFirstNode ==
    (MasterDone /\ master.hw_rev \in {"v1.0", "v1.1"}) => Cardinality(LedPositions) = 2

(***************************************************************************)
(* C9 as amended.  When the first node is standalone and its hw_rev is     *)
(* v1.0 or v1.1, exactly two led entries are written after all of its      *)
(* peripherals, at the two addresses that follow the last consumed one (0  *)
(* and 1 with no peripheral), and rtio_offset advances by 2.  A master     *)
(* node, whatever its hw_rev, a standalone node of another hw_rev and      *)
(* every satellite get no led entry.                                       *)
(***************************************************************************)
C9_Leds ==
    IF MasterDone /\ master.base = "standalone" /\ master.hw_rev \in {"v1.0", "v1.1"}
    THEN LET end == IF calls = << >> THEN 0
                    ELSE calls[Len(calls)].rtio_offset + calls[Len(calls)].n_channels
             n == Len(output)
         IN  /\ LedPositions = {n - 1, n}
             /\ output[n - 1] = Chan("led0", "TTLOut", end)
             /\ output[n] = Chan("led1", "TTLOut", end + 1)
             /\ rtio_offset = end + 2
             /\ \A i \in 1..Len(calls) : calls[i].last < n - 1
    ELSE LedPositions = {}

C9_Witness ==
    /\ pc = "done"
    /\ master.base = "standalone"
    /\ master.hw_rev = "v1.1"
    /\ Len(calls) = 2
    /\ Cardinality(LedPositions) = 2

(***************************************************************************)
(* C10.  A declaration of an unknown type, or an urukul of an unknown dds, *)
(* makes the run raise during its expansion: it is the last declaration    *)
(* expanded, nothing is written after its expansion, and the entries       *)
(* written before stay in the output, in their order.                      *)
(***************************************************************************)
C10_AbortsThere ==
    \A i \in 1..Len(calls) :
        Offending(calls[i].peripheral) =>
            /\ i = Len(calls)
            /\ pc = "raised"
            /\ raised \in {"AttributeError", "ValueError"}
            /\ ~Returned(calls[i])
            /\ sat = calls[i].node
            /\ Len(output) = calls[i].last

C10_Kept ==
    /\ Len(output') >= Len(output)
    /\ SubSeq(output', 1, Len(output)) = output
    /\ pc = "raised" => output' = output

C10_Abort == []C10_AbortsThere /\ [][C10_Kept]_vars

C10_Witness ==
    /\ pc = "raised"
    /\ Len(calls) = 2
    /\ Returned(calls[1])
    /\ calls[1].last >= calls[1].first
    /\ calls[2].peripheral.type = "urukul"
    /\ Offending(calls[2].peripheral)
    /\ Len(output) = calls[2].last

(***************************************************************************)
(* The run of the boundary case: a standalone node that is not of a legacy *)
(* revision, whose peripheral list was empty, has returned.                *)
(***************************************************************************)
EmptyStandaloneRun ==
    /\ pc = "done"
    /\ master.base = "standalone"
    /\ master.hw_rev \notin {"v1.0", "v1.1"}
    /\ calls = << >>

(***************************************************************************)
(* C11 as claimed.  A run on a standalone node with an empty peripheral    *)
(* list and a revision outside the legacy set writes exactly three device  *)
(* entries, those of the preamble.                                         *)
(***************************************************************************)
C11_ThreeEntries == EmptyStandaloneRun => Len(output) = 3

(***************************************************************************)
(* C11 as amended.  Such a run writes exactly the six entries of the       *)
(* preamble, core, core_log, core_cache, core_dma, i2c_switch0 and         *)
(* i2c_switch1, none of which has a channel, and no other entry.           *)
(***************************************************************************)
C11_HeaderOnly ==
    EmptyStandaloneRun =>
        /\ [i \in 1..Len(output) |-> output[i].name] =
              << "core", "core_log", "core_cache", "core_dma",
                 "i2c_switch0", "i2c_switch1" >>
        /\ \A i \in 1..Len(output) : output[i].key = "none" /\ output[i].refs = {}
        /\ rtio_offset = 0

C11_Witness == EmptyStandaloneRun /\ master.hw_rev = "v2.0" /\ Len(output) = 6

(***************************************************************************)
(* Vocabulary of the claim on the address windows of the nodes.  Node 0 is *)
(* the master, node k the k-th satellite of the command line.              *)
(***************************************************************************)
Nodes == 0..Len(satellites)

\* the addresses written into the led entries, which belong to the master
LedAddresses == {output[i].channel : i \in LedPositions}

\* the addresses assigned to entries of node k
NodeAddresses(k) ==
    UNION {Addresses(calls[i]) : i \in {j \in 1..Len(calls) : calls[j].node = k}}
      \cup (IF k = 0 THEN LedAddresses ELSE {})

\* where the pass of node k starts
NodeBase(k) == IF k = 0 THEN 0 ELSE satellites[k].destination * 65536

\* what a call consumed: its count, or the addresses it wrote before it raised
Used(c) == IF Returned(c) THEN c.n_channels ELSE Cardinality(Addresses(c))

\* the number of addresses node k has consumed
Consumed(k) ==
    LET mine == {j \in 1..Len(calls) : calls[j].node = k}
        last == CHOOSE j \in mine : \A m \in mine : m <= j
    IN  (IF mine = {} THEN 0
         ELSE calls[last].rtio_offset + Used(calls[last]) - NodeBase(k))
          + (IF k = 0 THEN Cardinality(LedAddresses) ELSE 0)

\* what the code leaves to the caller
WindowsApart ==
    /\ \A k \in 1..Len(satellites) : satellites[k].destination >= 1
    /\ \A k \in 1..Len(satellites), l \in 1..Len(satellites) :
          k # l => satellites[k].destination # satellites[l].destination
    /\ \A k \in Nodes : Consumed(k) < 65536

DestinationZeroShares ==
    /\ pc = "done"
    /\ Len(satellites) >= 1
    /\ satellites[1].destination = 0
    /\ NodeAddresses(0) \cap NodeAddresses(1) # {}

RepeatedDestinationShares ==
    /\ pc = "done"
    /\ Len(satellites) = 2
    /\ satellites[1].destination = satellites[2].destination
    /\ satellites[1].destination >= 1
    /\ NodeAddresses(1) \cap NodeAddresses(2) # {}

(***************************************************************************)
(* Vocabulary of the claim on the expansion that raises.                   *)
(***************************************************************************)
\* the names an urukul called name writes before its channels, in order
UrukulNamesBeforeChannels(name, peripheral) ==
    << "eeprom_" \o name, "spi_" \o name >>
      \o (IF peripheral.synchronization THEN << "ttl_" \o name \o "_sync" >> ELSE << >>)
      \o << "ttl_" \o name \o "_io_update" >>
      \o (IF Len(peripheral.ports) > 1
          THEN << "ttl_" \o name \o "_sw0", "ttl_" \o name \o "_sw1",
                  "ttl_" \o name \o "_sw2", "ttl_" \o name \o "_sw3" >>
          ELSE << >>)
      \o << name \o "_cpld" >>

\* this step is an expansion that raises
RaisingExpansion ==
    pc \in {"master", "satellite"} /\ pc' = "raised" /\ Len(calls') = Len(calls) + 1

(***************************************************************************)
(* C13.  The expansion that raises is not atomic for an urukul of unknown  *)
(* dds: the 'urukul' counter has been incremented and the eeprom_, spi_,   *)
(* (sync,) io_update, (sw0..3) and _cpld entries of the declaration have   *)
(* been written, and none of its _ch entries, when ValueError is raised.   *)
(* A declaration of unknown type raises AttributeError with the counters   *)
(* and the output as they were.                                            *)
(***************************************************************************)
C13_Step ==
    RaisingExpansion =>
        LET c == calls'[Len(calls')]
            name == "urukul" \o ToString(counts["urukul"])
            new == SubSeq(output', Len(output) + 1, Len(output'))
        IN  IF c.peripheral.type = "urukul"
            THEN /\ c.peripheral.dds \notin {"ad9910", "ad9912"}
                 /\ raised' = "ValueError"
                 /\ counts' = [counts EXCEPT !["urukul"] = counts["urukul"] + 1]
                 /\ SubSeq(output', 1, Len(output)) = output
                 /\ [i \in 1..Len(new) |-> new[i].name] =
                        UrukulNamesBeforeChannels(name, c.peripheral)
                 /\ \A i \in 1..Len(new), m \in 0..3 :
                        new[i].name # name \o "_ch" \o ToString(m)
            ELSE /\ Offending(c.peripheral)
                 /\ raised' = "AttributeError"
                 /\ counts' = counts
                 /\ output' = output

C13_NotAtomic == [][C13_Step]_vars

C13_Witness ==
    /\ pc = "raised"
    /\ raised = "ValueError"
    /\ Len(calls) = 2
    /\ calls[1].peripheral.type = "suservo"
    /\ calls[2].peripheral.type = "urukul"
    /\ calls[2].peripheral.synchronization
    /\ Len(calls[2].peripheral.ports) > 1
    /\ counts["urukul"] = 3
    /\ calls[2].last - calls[2].first + 1 = 9
    /\ output[calls[2].last].name = "urukul2_cpld"

====
